---- MODULE Spec2Model ----
(***************************************************************************)
(* Model of aqi/sensor.py: the AirQualitySensor monitor loop, its night    *)
(* gate, its aggregation and its append-with-recovery persistence.         *)
(*                                                                         *)
(* The clock is counted in ticks of half an hour, so that 21:00 and 09:30  *)
(* are whole ticks.  The durations of a mode are counted in the same ticks.*)
(* Timestamps of readings are kept in half ticks (2 * clock), so that the  *)
(* division by two of aggregate_readings is exact.                         *)
(***************************************************************************)
EXTENDS Integers, Sequences, FiniteSets, TLC

VARIABLES
    mode,        \* self.mode, selected in __init__
    pc,          \* position of the single thread of control
    boot,        \* host clock when the process started
    now,         \* host clock, datetime.datetime.now()
    start_time,  \* local start_time of monitor(): the window start
    readings,    \* self.readings, the in-memory buffer
    file,        \* content of READINGS_FILE
    sensor,      \* state last commanded to the sensor by a wake or sleep call
    fault,       \* exception currently propagating, with the place it was raised
    atFault,     \* self.readings when that exception was raised
    gate,        \* last evaluation of is_night(): clock time and result
    iter,        \* clock time of day at which the current loop iteration began
    call,        \* the current _carry_out_monitoring_cycle: clock, window start,
                 \* buffer length, file and sensor state when it was entered
    cyc,         \* calls made by the current _carry_out_monitoring_cycle
    td,          \* calls made by __exit__
    flushes,     \* buffers written by the completed save_readings_to_file calls
    file0,       \* content of READINGS_FILE when the process started
    count,       \* number of readings taken
    taken,       \* the readings taken, in capture order
    write_failed \* a file operation of save_readings_to_file has raised

vars == <<mode, pc, boot, now, start_time, readings, file, sensor, fault,
          atFault, gate, iter, call, cyc, td, flushes, file0, count, taken,
          write_failed>>

----------------------------------------------------------------------------
(* Bounds of the model *)

MaxElapsed == 4     \* ticks of clock the session is followed for
MaxTaken == 3       \* readings taken in one session

(* The clock *)

TicksPerDay == 48
NightStartTick == 42    \* datetime.time(hour=21)
NightEndTick == 19      \* datetime.time(hour=9, minute=30)

TimeOfDay(t) == t % TicksPerDay

StartTimes == {NightEndTick - 2, NightStartTick - 2}

----------------------------------------------------------------------------
(* measurement_modes.modes: the registry of modes.  An aggregation that is  *)
(* not set is None; a monitoring_duration that is not set is 0, which the  *)
(* code tests, like None, by its truth value.                              *)

None == "None"

Modes ==
    { [name |-> "continuous", measurement_period |-> 1, sleep_time |-> 0,
       monitoring_duration |-> 0, aggregation |-> None, night_monitoring |-> TRUE],
      [name |-> "continuous_daytime", measurement_period |-> 1, sleep_time |-> 0,
       monitoring_duration |-> 0, aggregation |-> None, night_monitoring |-> FALSE],
      [name |-> "hourly_five_minute_average", measurement_period |-> 1, sleep_time |-> 2,
       monitoring_duration |-> 2, aggregation |-> "mean", night_monitoring |-> TRUE],
      [name |-> "ten_second_alternation", measurement_period |-> 1, sleep_time |-> 1,
       monitoring_duration |-> 2, aggregation |-> None, night_monitoring |-> FALSE],
      [name |-> "periodic", measurement_period |-> 1, sleep_time |-> 2,
       monitoring_duration |-> 0, aggregation |-> None, night_monitoring |-> TRUE] }

----------------------------------------------------------------------------
(* The Sensor Driver's raw measurements and the Calculator *)

Samples == { [pm25 |-> 5, pm10 |-> 10], [pm25 |-> 7, pm10 |-> 9] }

Max(a, b) == IF a >= b THEN a ELSE b

\* AQICalculator.calculate_aqis_and_bands: a pure function of the raw measurement
calculate_aqis_and_bands(raw) ==
    [time |-> raw.time, pm25 |-> raw.pm25, pm10 |-> raw.pm10,
     aqi |-> Max(raw.pm25 \div 4, raw.pm10 \div 6)]

\* SensorInstructionSet.query_data at clock t, the sensor measuring s
query_data(t, s) == [time |-> 2 * t, pm25 |-> s.pm25, pm10 |-> s.pm10]

----------------------------------------------------------------------------
(* Reading.to_dict and Reading.from_dict *)

RecordKeys == {"time", "pm25", "pm10", "Overall AQI"}

to_dict(r) ==
    [k \in RecordKeys |->
        CASE k = "time" -> r.time
          [] k = "pm25" -> r.pm25
          [] k = "pm10" -> r.pm10
          [] k = "Overall AQI" -> r.aqi]

\* from_dict raises on an object that lacks a field of a Reading
from_dict_raises(d) == ~(RecordKeys \subseteq DOMAIN d)

from_dict(d) ==
    [time |-> d["time"], pm25 |-> d["pm25"], pm10 |-> d["pm10"], aqi |-> d["Overall AQI"]]

----------------------------------------------------------------------------
(* is_night *)

is_night(t) == t >= NightStartTick /\ t < NightEndTick

----------------------------------------------------------------------------
(* aggregate_readings *)

RECURSIVE SumPm25(_)
SumPm25(buf) == IF buf = <<>> THEN 0 ELSE Head(buf).pm25 + SumPm25(Tail(buf))

RECURSIVE SumPm10(_)
SumPm10(buf) == IF buf = <<>> THEN 0 ELSE Head(buf).pm10 + SumPm10(Tail(buf))

\* the synthetic measurement holding the means of the concentrations
raw_mean_reading(buf) ==
    [time |-> buf[1].time + (buf[1].time + buf[Len(buf)].time) \div 2,
     pm25 |-> SumPm25(buf) \div Len(buf),
     pm10 |-> SumPm10(buf) \div Len(buf)]

raw_average_reading(buf) ==
    [time |-> buf[1].time + (buf[1].time + buf[Len(buf)].time) \div 2,
     pm25 |-> SumPm25(buf),
     pm10 |-> SumPm10(buf)]

\* aggregate_readings appending the aggregate instead of replacing the buffer
aggregated_appended(buf, m) ==
    IF m.aggregation = None THEN buf
    ELSE IF m.aggregation = "mean"
         THEN Append(buf, calculate_aqis_and_bands(raw_average_reading(buf)))
         ELSE buf

\* aggregate_readings without the early return of line 134
aggregated_unguarded(buf, m) ==
    IF buf = <<>> THEN buf
    ELSE <<calculate_aqis_and_bands(raw_average_reading(buf))>>

\* the buffer aggregate_readings leaves when it returns
aggregated(buf, m) ==
    IF m.aggregation = None THEN buf
    ELSE IF m.aggregation = "mean"
         THEN <<calculate_aqis_and_bands(raw_average_reading(buf))>>
         ELSE buf

\* self.readings[0] of an empty buffer raises IndexError
aggregate_raises(buf, m) == m.aggregation = "mean" /\ buf = <<>>

\* aggregate_readings calls the Calculator
aggregate_calculates(m) == m.aggregation = "mean"

----------------------------------------------------------------------------
(* save_readings_to_file *)

Absent == [state |-> "absent", items |-> <<>>]
EmptyFile == [state |-> "empty", items |-> <<>>]
Garbage == [state |-> "garbage", items |-> <<>>]
RecordList(items) == [state |-> "list", items |-> items]

\* what json.load and Reading.from_dict raise on the content, lines 162-169:
\* a file that was absent has just been created empty
load_error(f) ==
    IF f.state # "list" THEN "JSONDecodeError"
    ELSE IF \E i \in 1..Len(f.items) : from_dict_raises(f.items[i]) THEN "KeyError"
    ELSE "none"

\* an except clause that names the decoding error only
except_catches_decoding(e) == e = "JSONDecodeError"

\* the bare except of line 170
except_catches(e) == TRUE

parses(f) == load_error(f) = "none"

\* the exception of the read-back leaves save_readings_to_file
save_raises(f) == ~parses(f) /\ ~except_catches(load_error(f))

existing_data(f) ==
    IF parses(f) THEN [i \in 1..Len(f.items) |-> from_dict(f.items[i])] ELSE <<>>

\* the buffer put before the existing records
all_data_reversed(f, buf) == buf \o existing_data(f)

all_data(f, buf) == existing_data(f) \o buf

\* the buffer written over the file without the records read back
dumped_buffer_only(f, buf) == RecordList([i \in 1..Len(buf) |-> to_dict(buf[i])])

\* the file after json.dump
dumped(f, buf) ==
    RecordList([i \in 1..Len(all_data(f, buf)) |-> to_dict(all_data(f, buf)[i])])

\* the file a failed call may leave: untouched, created or truncated, or partly written
failed_write(f) == {f, EmptyFile, Garbage}

----------------------------------------------------------------------------
(* The state after construction *)

NoFault == [kind |-> "none", at |-> "none"]
NoCall == [at |-> 0, start |-> 0, n |-> -1, file |-> Absent, sensor |-> "asleep"]

PriorRecord == to_dict(calculate_aqis_and_bands([time |-> 0, pm25 |-> 3, pm10 |-> 4]))
NotARecord == [k \in {"time"} |-> 0]

InitialFiles ==
    { Absent, EmptyFile, Garbage, RecordList(<<PriorRecord>>),
      RecordList(<<PriorRecord, NotARecord>>) }

Init ==
    /\ mode \in Modes
    /\ pc = "monitor"
    /\ boot \in StartTimes
    /\ now = boot
    /\ start_time = 0
    /\ readings = <<>>
    /\ file \in InitialFiles
    /\ file0 = file
    /\ sensor = "asleep"
    /\ fault = NoFault
    /\ atFault = <<>>
    /\ gate = [checked |-> FALSE, at |-> 0, result |-> FALSE]
    /\ iter = 0
    /\ call = NoCall
    /\ cyc = <<>>
    /\ td = <<>>
    /\ flushes = <<>>
    /\ count = 0
    /\ taken = <<>>
    /\ write_failed = FALSE

----------------------------------------------------------------------------
(* Helpers of the actions *)

uses_cycle(m) == m.sleep_time # 0 /\ m.monitoring_duration # 0

InSession == pc \in {"loop", "cycle", "take", "aggregate", "save", "sensor_sleep",
                     "block", "sensor_wake", "restart"}

\* an exception raised inside the with block: __exit__ runs
Raise(kind) ==
    /\ fault' = [kind |-> kind, at |-> pc]
    /\ atFault' = readings
    /\ pc' = "exit_sleep"

\* a call of the driver's wake or sleep, returning or raising, commands the state
Commanded(state) == sensor' = state

----------------------------------------------------------------------------
(* monitor *)

\* lines 52-54
Start ==
    /\ pc = "monitor"
    /\ start_time' = now
    /\ pc' = "enter"
    /\ UNCHANGED <<mode, boot, now, readings, file, sensor, fault, atFault, gate,
                   iter, call, cyc, td, flushes, file0, count, taken,
                   write_failed>>

\* __enter__: an exception of wake leaves monitor without __exit__
Enter ==
    /\ pc = "enter"
    /\ \E ok \in BOOLEAN :
        /\ Commanded("awake")
        /\ pc' = IF ok THEN "loop" ELSE "done"
        /\ fault' = IF ok THEN fault ELSE [kind |-> "wake", at |-> "enter"]
    /\ UNCHANGED <<mode, boot, now, start_time, readings, file, atFault, gate,
                   iter, call, cyc, td, flushes, file0, count, taken,
                   write_failed>>

\* the windowed loop entering the monitoring cycle whatever monitoring_duration is
branch_cycle_unconditional(m, night) ==
    IF ~m.night_monitoring /\ night THEN "loop"
    ELSE IF m.sleep_time = 0 THEN "take"
    ELSE "cycle"

\* the continuous loop entering the monitoring cycle
branch_cycle_when_continuous(m, night) ==
    IF ~m.night_monitoring /\ night THEN "loop"
    ELSE IF m.sleep_time = 0 THEN "cycle"
    ELSE IF m.monitoring_duration # 0 THEN "cycle"
    ELSE "take"

\* where one iteration of either loop goes, the gate having answered night
branch(m, night) ==
    IF ~m.night_monitoring /\ night THEN "loop"
    ELSE IF m.sleep_time = 0 THEN "take"
    ELSE IF m.monitoring_duration # 0 THEN "cycle"
    ELSE "take"

\* the head of one iteration of the while loops, lines 60-91
Iterate ==
    /\ pc = "loop"
    /\ iter' = TimeOfDay(now)
    /\ gate' = IF mode.night_monitoring THEN gate
               ELSE [checked |-> TRUE, at |-> TimeOfDay(now),
                     result |-> is_night(TimeOfDay(now))]
    /\ pc' = branch(mode, is_night(TimeOfDay(now)))
    /\ UNCHANGED <<mode, boot, now, start_time, readings, file, sensor, fault,
                   atFault, call, cyc, td, flushes, file0, count, taken,
                   write_failed>>

\* the comparison of line 103 turned around
window_open_reversed(t, start, m) == t - start > m.monitoring_duration

\* a window that no elapsed time closes
window_open_for_ever(t, start, m) == t - t < m.monitoring_duration

\* time_spent_monitoring < self.mode.monitoring_duration
window_open(t, start, m) == t - start < m.monitoring_duration

\* _carry_out_monitoring_cycle, lines 99-103
Cycle ==
    /\ pc = "cycle"
    /\ call' = [at |-> now, start |-> start_time, n |-> Len(readings),
                file |-> file, sensor |-> sensor]
    /\ cyc' = <<>>
    /\ pc' = IF window_open(now, start_time, mode) THEN "take" ELSE "aggregate"
    /\ UNCHANGED <<mode, boot, now, start_time, readings, file, sensor, fault,
                   atFault, gate, iter, td, flushes, file0, count, taken,
                   write_failed>>

\* the host clock may advance by d more ticks within the model's horizon
WithinHorizon(d) == now + d - boot <= MaxElapsed

\* take_reading, lines 121-125
take_reading ==
    /\ pc = "take"
    /\ \/ \E s \in Samples :
            /\ count < MaxTaken
            /\ WithinHorizon(mode.measurement_period)
            /\ readings' = Append(readings, calculate_aqis_and_bands(query_data(now, s)))
            /\ count' = count + 1
            /\ taken' = Append(taken, calculate_aqis_and_bands(query_data(now, s)))
            /\ now' = now + mode.measurement_period
            /\ cyc' = IF uses_cycle(mode) THEN Append(cyc, "reading") ELSE cyc
            /\ pc' = "loop"
            /\ UNCHANGED <<fault, atFault>>
       \/ /\ Raise("query")
          /\ UNCHANGED <<readings, count, taken, now, cyc>>
       \/ /\ Raise("calculator")
          /\ UNCHANGED <<readings, count, taken, now, cyc>>
    /\ UNCHANGED <<mode, boot, start_time, file, sensor, gate, iter, call, td,
                   flushes, file0,
                   write_failed>>

\* aggregate_readings, lines 132-144
aggregate_readings ==
    /\ pc = "aggregate"
    /\ cyc' = Append(cyc, "aggregate")
    /\ \/ /\ ~aggregate_raises(readings, mode)
          /\ readings' = aggregated(readings, mode)
          /\ pc' = "save"
          /\ UNCHANGED <<fault, atFault>>
       \/ /\ aggregate_raises(readings, mode)
          /\ Raise("index")
          /\ UNCHANGED readings
       \/ /\ aggregate_calculates(mode)
          /\ ~aggregate_raises(readings, mode)
          /\ Raise("calculator")
          /\ UNCHANGED readings
    /\ UNCHANGED <<mode, boot, now, start_time, file, sensor, gate, iter, call, td,
                   flushes, file0, count, taken,
                   write_failed>>

\* save_readings_to_file, lines 162-180, its file operations succeeding
save_readings_to_file ==
    /\ UNCHANGED write_failed
    /\ IF save_raises(file)
       THEN /\ file' = IF file.state = "absent" THEN EmptyFile ELSE file
            /\ UNCHANGED <<readings, flushes>>
       ELSE /\ file' = dumped(file, readings)
            /\ readings' = <<>>
            /\ flushes' = Append(flushes, readings)

\* save_readings_to_file clearing the buffer before the write that raises
save_fails_cleared ==
    /\ file' \in failed_write(file)
    /\ write_failed' = TRUE
    /\ readings' = <<>>
    /\ UNCHANGED flushes

\* save_readings_to_file, one of its file operations raising
save_fails ==
    /\ file' \in failed_write(file)
    /\ write_failed' = TRUE
    /\ UNCHANGED <<readings, flushes>>

\* line 108
CycleSave ==
    /\ pc = "save"
    /\ cyc' = Append(cyc, "flush")
    /\ \/ /\ save_readings_to_file
          /\ IF save_raises(file)
             THEN Raise("parse")
             ELSE pc' = "sensor_sleep" /\ UNCHANGED <<fault, atFault>>
       \/ /\ save_fails
          /\ Raise("write")
    /\ UNCHANGED <<mode, boot, now, start_time, sensor, gate, iter, call, td,
                   file0, count, taken>>

\* line 109
CycleSleep ==
    /\ pc = "sensor_sleep"
    /\ cyc' = Append(cyc, "sleep")
    /\ \/ /\ Commanded("asleep")
          /\ pc' = "block"
          /\ UNCHANGED <<fault, atFault>>
       \/ /\ Commanded("asleep")
          /\ Raise("sleep")
    /\ UNCHANGED <<mode, boot, now, start_time, readings, file, gate, iter, call,
                   td, flushes, file0, count, taken,
                   write_failed>>

\* the cycle not blocking at all
blocked_not_at_all(t, m) == t

\* the clock after time.sleep(self.mode.sleep_time)
blocked_until(t, m) == t + m.sleep_time

\* line 110
Block ==
    /\ pc = "block"
    /\ WithinHorizon(mode.sleep_time)
    /\ now' = blocked_until(now, mode)
    /\ cyc' = Append(cyc, "block")
    /\ pc' = "sensor_wake"
    /\ UNCHANGED <<mode, boot, start_time, readings, file, sensor, fault, atFault,
                   gate, iter, call, td, flushes, file0, count, taken,
                   write_failed>>

\* the window-complete branch without its wake call
CycleWakeOmitted ==
    /\ pc = "sensor_wake"
    /\ cyc' = Append(cyc, "wake")
    /\ pc' = "restart"
    /\ UNCHANGED <<mode, boot, now, start_time, readings, file, gate, iter, call,
                   td, flushes, file0, count, taken, sensor, fault, atFault,
                   write_failed>>

\* line 111
CycleWake ==
    /\ pc = "sensor_wake"
    /\ cyc' = Append(cyc, "wake")
    /\ \/ /\ Commanded("awake")
          /\ pc' = "restart"
          /\ UNCHANGED <<fault, atFault>>
       \/ /\ Commanded("awake")
          /\ Raise("wake")
    /\ UNCHANGED <<mode, boot, now, start_time, readings, file, gate, iter, call,
                   td, flushes, file0, count, taken,
                   write_failed>>

\* lines 112-114: the new window start, returned to the loop
Restart ==
    /\ pc = "restart"
    /\ start_time' = now
    /\ cyc' = Append(cyc, "now")
    /\ pc' = "loop"
    /\ UNCHANGED <<mode, boot, now, readings, file, sensor, fault, atFault, gate,
                   iter, call, td, flushes, file0, count, taken,
                   write_failed>>

----------------------------------------------------------------------------
(* __exit__ *)

\* __exit__ without its line 45
ExitSleepOnly ==
    /\ pc = "exit_sleep"
    /\ td' = Append(td, "sleep")
    /\ Commanded("asleep")
    /\ pc' = "done"
    /\ UNCHANGED <<mode, boot, now, start_time, readings, file, gate, iter, call,
                   cyc, flushes, file0, count, taken, fault, atFault,
                   write_failed>>

\* line 44: an exception of sleep leaves __exit__ at once
ExitSleep ==
    /\ pc = "exit_sleep"
    /\ td' = Append(td, "sleep")
    /\ \/ /\ Commanded("asleep")
          /\ pc' = "exit_save"
          /\ UNCHANGED <<fault, atFault>>
       \/ /\ Commanded("asleep")
          /\ fault' = [kind |-> "sleep", at |-> "exit_sleep"]
          /\ atFault' = readings
          /\ pc' = "done"
    /\ UNCHANGED <<mode, boot, now, start_time, readings, file, gate, iter, call,
                   cyc, flushes, file0, count, taken,
                   write_failed>>

\* __exit__ calling save_readings_to_file again after it raised
ExitSaveRetrying ==
    /\ pc = "exit_save"
    /\ td' = Append(td, "flush")
    /\ \/ /\ save_readings_to_file
          /\ pc' = "done"
          /\ UNCHANGED <<fault, atFault>>
       \/ /\ save_fails
          /\ pc' = "exit_save"
          /\ fault' = [kind |-> "write", at |-> "exit_save"]
          /\ atFault' = readings
    /\ UNCHANGED <<mode, boot, now, start_time, sensor, gate, iter, call, cyc,
                   file0, count, taken>>

\* __exit__ aggregating the buffer before it flushes it
ExitSaveAggregating ==
    /\ pc = "exit_save"
    /\ td' = Append(td, "flush")
    /\ pc' = "done"
    /\ file' = dumped(file, IF readings = <<>> THEN readings
                            ELSE aggregated(readings, mode))
    /\ readings' = <<>>
    /\ flushes' = Append(flushes, readings)
    /\ UNCHANGED <<mode, boot, now, start_time, sensor, gate, iter, call, cyc,
                   file0, count, taken, fault, atFault, write_failed>>

\* line 45
ExitSave ==
    /\ pc = "exit_save"
    /\ td' = Append(td, "flush")
    /\ pc' = "done"
    /\ \/ /\ save_readings_to_file
          /\ IF save_raises(file)
             THEN fault' = [kind |-> "parse", at |-> "exit_save"] /\ atFault' = readings
             ELSE UNCHANGED <<fault, atFault>>
       \/ /\ save_fails
          /\ fault' = [kind |-> "write", at |-> "exit_save"]
          /\ atFault' = readings
    /\ UNCHANGED <<mode, boot, now, start_time, sensor, gate, iter, call, cyc,
                   file0, count, taken>>

----------------------------------------------------------------------------
(* The environment *)

\* the host clock advances while monitor runs, up to the teardown
Tick ==
    /\ pc \in {"monitor", "enter"} \/ InSession
    /\ WithinHorizon(1)
    /\ now' = now + 1
    /\ UNCHANGED <<mode, pc, boot, start_time, readings, file, sensor, fault,
                   atFault, gate, iter, call, cyc, td, flushes, file0, count,
                   taken, write_failed>>

\* the process is told to stop (KeyboardInterrupt) inside the with block
Interrupt ==
    /\ InSession
    /\ Raise("interrupt")
    /\ UNCHANGED <<mode, boot, now, start_time, readings, file, sensor, gate, iter,
                   call, cyc, td, flushes, file0, count, taken,
                   write_failed>>

Next ==
    \/ Start
    \/ Enter
    \/ Iterate
    \/ Cycle
    \/ take_reading
    \/ aggregate_readings
    \/ CycleSave
    \/ CycleSleep
    \/ Block
    \/ CycleWake
    \/ Restart
    \/ ExitSleep
    \/ ExitSave
    \/ Tick
    \/ Interrupt

Spec == Init /\ [][Next]_vars

----------------------------------------------------------------------------
(* The windowed session that nothing ends: monitor's second loop, lines 72-91,
   running window after window.  The loop reads the clock only as
   now - start_time and never reads what it has persisted, so each window is
   observed from its own start: when the window-complete branch returns, the
   epoch of the clock is moved to the new start_time and the records of the
   windows already closed are set aside.  This keeps the states finite while
   the program runs for ever. *)

\* a windowed mode with monitoring_duration set and night_monitoring true
LiveInit == Init /\ uses_cycle(mode) /\ mode.night_monitoring

\* lines 112-114, start_time = now, seen from the new epoch
LiveRestart ==
    /\ pc = "restart"
    /\ now' = boot
    /\ start_time' = now'
    /\ cyc' = Append(cyc, "now")
    /\ pc' = "loop"
    /\ file' = file0
    /\ flushes' = <<>>
    /\ taken' = <<>>
    /\ count' = 0
    /\ UNCHANGED <<mode, boot, readings, sensor, fault, atFault, gate, iter, call,
                   td, file0, write_failed>>

\* the host clock advances between two statements of the loop while the window
\* is open; once it is closed a later clock changes no comparison of line 103
LiveTick ==
    /\ pc \in {"loop", "cycle"}
    /\ window_open(now, start_time, mode)
    /\ WithinHorizon(1)
    /\ now' = now + 1
    /\ UNCHANGED <<mode, pc, boot, start_time, readings, file, sensor, fault,
                   atFault, gate, iter, call, cyc, td, flushes, file0, count,
                   taken, write_failed>>

\* the statements of the one thread of monitor
Thread ==
    \/ Start
    \/ Enter
    \/ Iterate
    \/ Cycle
    \/ take_reading
    \/ aggregate_readings
    \/ CycleSave
    \/ CycleSleep
    \/ Block
    \/ CycleWake
    \/ LiveRestart
    \/ ExitSleep
    \/ ExitSave

\* a statement that returns, or raises the program's own exception (the
\* IndexError of line 139): the driver, the calculator, the file system and
\* the operator are free never to fault
Proceed == Thread /\ (fault' = fault \/ fault'.kind = "index")

LiveNext ==
    \/ Start
    \/ Enter
    \/ Iterate
    \/ Cycle
    \/ take_reading
    \/ aggregate_readings
    \/ CycleSave
    \/ CycleSleep
    \/ Block
    \/ CycleWake
    \/ LiveRestart
    \/ ExitSleep
    \/ ExitSave
    \/ LiveTick
    \/ Interrupt

\* the single thread is always running: every call and every blocking wait
\* (time.sleep of lines 110 and 125) that does not fault returns
LiveSpec == LiveInit /\ [][LiveNext]_vars /\ WF_vars(Proceed)

----------------------------------------------------------------------------
(* The claims *)

\* the records of a buffer, as json.dump writes them
dicts(buf) == [i \in 1..Len(buf) |-> to_dict(buf[i])]

\* this step is a call of save_readings_to_file
SaveCalled == cyc' = Append(cyc, "flush") \/ td' = Append(td, "flush")

\* this step is a call of aggregate_readings
AggregateCalled == cyc' = Append(cyc, "aggregate")

\* the night window of the specification: [21:00, 09:30)
InNightWindow(t) == NightStartTick <= t \/ t < NightEndTick

MeasurementFault == fault.at = "take" /\ fault.kind \in {"query", "calculator"}

\* C1: when the fault of a sensor query or of the Calculator inside take_reading
\* leaves monitor(), __exit__ has called the sensor's sleep exactly once and
\* save_readings_to_file exactly once, the sleep before the flush.
C1_TeardownOnce ==
    (pc = "done" /\ MeasurementFault) => td = <<"sleep", "flush">>

C1_Witness ==
    /\ pc = "done"
    /\ MeasurementFault
    /\ td = <<"sleep", "flush">>
    /\ Len(atFault) >= 1

\* C2: a call of save_readings_to_file that returns, on a file that parses as
\* records, leaves the file holding its former records followed by the buffer's
\* readings, and the buffer empty; two completed flushes of one reading each,
\* starting from an absent or empty file, leave exactly those 2 records in order.
C2_FlushAppends ==
    /\ [][(SaveCalled /\ parses(file) /\ Len(flushes') = Len(flushes) + 1)
            => (/\ file' = RecordList(file.items \o dicts(readings))
                /\ readings' = <<>>)]_vars
    /\ []((/\ file0.state \in {"absent", "empty"}
           /\ Len(flushes) = 2
           /\ Len(flushes[1]) = 1
           /\ Len(flushes[2]) = 1
           /\ fault.kind # "write")
            => file = RecordList(<<to_dict(flushes[1][1]), to_dict(flushes[2][1])>>))

C2_Witness ==
    /\ file0.state = "absent"
    /\ Len(flushes) = 2
    /\ Len(flushes[1]) = 1
    /\ Len(flushes[2]) = 1
    /\ Len(file.items) = 2
    /\ readings = <<>>

\* C3: a call of save_readings_to_file on a file that does not parse as records
\* does not fail for that: unless a file operation fails, it returns, the file
\* then holds exactly the buffer's readings and the buffer is empty.
C3_CorruptFileReset ==
    [][(SaveCalled /\ ~parses(file) /\ fault'.kind # "write")
        => (/\ file' = RecordList(dicts(readings))
            /\ readings' = <<>>
            /\ fault' = fault
            /\ pc' \in {"sensor_sleep", "done"})]_vars

C3_Witness ==
    /\ file0 = RecordList(<<PriorRecord, NotARecord>>)
    /\ Len(flushes) = 1
    /\ Len(flushes[1]) = 1
    /\ file = RecordList(dicts(flushes[1]))

\* C4: is_night answers true exactly for the clock times t with 21:00 <= t or
\* t < 09:30.
C4_IsNightWindow ==
    gate.checked => (gate.result <=> InNightWindow(gate.at))

\* C5: with night_monitoring false no reading is taken in a loop iteration that
\* began inside the night window; with night_monitoring true every iteration goes
\* on to measure.
C5_NightGate ==
    [][/\ (count' = count + 1 /\ ~mode.night_monitoring) => ~InNightWindow(iter)
       /\ (pc = "loop" /\ pc' # "exit_sleep" /\ pc' # pc /\ mode.night_monitoring)
            => pc' \in {"take", "cycle"}]_vars

\* the last call of _carry_out_monitoring_cycle has returned
CycleReturned == pc = "loop" /\ call.n >= 0

\* C6: a call of _carry_out_monitoring_cycle entered with now - start_time <
\* monitoring_duration, when it returns, has taken exactly one reading and
\* nothing else: the window start, the file and the sensor are as at its entry.
C6_WindowOpen ==
    (CycleReturned /\ call.at - call.start < mode.monitoring_duration)
        => (/\ cyc = <<"reading">>
            /\ Len(readings) = call.n + 1
            /\ start_time = call.start
            /\ file = call.file
            /\ sensor = call.sensor)

C6_Witness ==
    /\ CycleReturned
    /\ call.at - call.start = 1
    /\ mode.monitoring_duration = 2
    /\ cyc = <<"reading">>
    /\ start_time = call.start

\* C7: a call of _carry_out_monitoring_cycle entered with now - start_time >=
\* monitoring_duration, when it returns, has aggregated, flushed, put the sensor
\* to sleep, blocked, woken the sensor and read the clock, each once and in this
\* order, has taken no reading, and returns a window start at least sleep_time
\* after its entry.
C7_WindowComplete ==
    (CycleReturned /\ call.at - call.start >= mode.monitoring_duration)
        => (/\ cyc = <<"aggregate", "flush", "sleep", "block", "wake", "now">>
            /\ start_time >= call.at + mode.sleep_time
            /\ start_time <= now)

C7_Witness ==
    /\ CycleReturned
    /\ call.at - call.start > mode.monitoring_duration
    /\ call.n >= 1
    /\ cyc = <<"aggregate", "flush", "sleep", "block", "wake", "now">>
    /\ start_time = call.at + mode.sleep_time
    /\ sensor = "awake"

\* every reading of buf is a record of the file f
Persisted(buf, f) ==
    \A i \in 1..Len(buf) : \E j \in 1..Len(f.items) : f.items[j] = to_dict(buf[i])

\* C8: when a fault of the Sensor Driver or of the Calculator raised after the
\* session was entered leaves monitor(), the sensor was last commanded asleep, the
\* buffer is empty and every reading buffered at the fault is in the file.
C8_TeardownAfterFault ==
    (/\ pc = "done"
     /\ fault.kind \in {"query", "calculator", "sleep", "wake"}
     /\ fault.at # "enter")
        => (/\ sensor = "asleep"
            /\ readings = <<>>
            /\ Persisted(atFault, file))

\* C9: aggregate_readings with aggregation = mean, returning from a buffer of
\* N >= 1 readings, leaves exactly one Reading, the Calculator's output for the
\* synthetic raw measurement.
C9_MeanLeavesOne ==
    [][(/\ AggregateCalled
        /\ pc' = "save"
        /\ mode.aggregation = "mean"
        /\ Len(readings) >= 1)
        => (/\ Len(readings') = 1
            /\ readings'[1] = calculate_aqis_and_bands(raw_average_reading(readings)))]_vars

C9_Witness ==
    /\ pc = "save"
    /\ mode.aggregation = "mean"
    /\ call.n = 2
    /\ Len(readings) = 1
    /\ readings[1].pm25 > 7

\* C10: aggregate_readings with no aggregation set returns and changes nothing:
\* the buffer, empty or not, the file, the sensor and the window start are as
\* before.
C10_NoAggregationNoOp ==
    [][(AggregateCalled /\ mode.aggregation = None)
        => (/\ pc' = "save"
            /\ readings' = readings
            /\ file' = file
            /\ sensor' = sensor
            /\ start_time' = start_time
            /\ fault' = fault)]_vars

C10_Witness ==
    /\ pc = "save"
    /\ mode.aggregation = None
    /\ cyc = <<"aggregate">>
    /\ Len(readings) = 2
    /\ call.n = 2

\* C10, the empty buffer
C10_WitnessEmpty ==
    /\ pc = "save"
    /\ mode.aggregation = None
    /\ cyc = <<"aggregate">>
    /\ readings = <<>>

\* C11: in a windowed mode without monitoring_duration, up to the teardown, the
\* loop only alternates between its head and take_reading, every reading taken
\* is in the buffer, the sensor is never put to sleep, and nothing is aggregated,
\* blocked for or flushed: the file is as it was when the process started.
C11_NoCycleWithoutDuration ==
    (mode.sleep_time # 0 /\ mode.monitoring_duration = 0 /\ InSession)
        => (/\ pc \in {"loop", "take"}
            /\ readings = taken
            /\ sensor = "awake"
            /\ cyc = <<>>
            /\ call = NoCall
            /\ flushes = <<>>
            /\ file = file0)

C11_Witness ==
    /\ mode.sleep_time # 0
    /\ mode.monitoring_duration = 0
    /\ pc = "loop"
    /\ Len(readings) = 3
    /\ now - boot > mode.sleep_time
    /\ sensor = "awake"

\* C12: once a call of save_readings_to_file has raised, no further call of
\* save_readings_to_file is made.
C12_NoFurtherSave ==
    [][write_failed => ~SaveCalled]_vars

\* C12, amended: once a call of save_readings_to_file has raised, the only further
\* call is the one flush of __exit__, made after the sensor's sleep when the call
\* that raised was the flush of the window-complete branch; monitor() ends with it.
C12_OnlyTeardownSaveAgain ==
    [][(write_failed /\ SaveCalled)
        => (/\ pc = "exit_save"
            /\ fault = [kind |-> "write", at |-> "save"]
            /\ td = <<"sleep">>
            /\ td' = <<"sleep", "flush">>
            /\ pc' = "done")]_vars

C12_Witness ==
    /\ pc = "done"
    /\ fault = [kind |-> "write", at |-> "save"]
    /\ write_failed
    /\ td = <<"sleep", "flush">>
    /\ Len(atFault) >= 1
    /\ readings = <<>>
    /\ Len(flushes) = 1

\* r is a reading as take_reading took it
Individual(r) == \E i \in 1..Len(taken) : taken[i] = r

\* this step is the flush of __exit__, returning
TeardownFlushed == td' = Append(td, "flush") /\ Len(flushes') = Len(flushes) + 1

\* the buffer as it was when the current monitoring cycle was entered
BufferAtCall == SubSeq(taken, Len(taken) - call.n + 1, Len(taken))

\* C13: aggregate_readings is invoked only in the window-complete branch of the
\* monitoring cycle, the flush of the teardown writes the buffer as it stands, and
\* every record it adds to the file is a reading as take_reading took it.
C13_TeardownWritesIndividual ==
    [][/\ AggregateCalled
            => (pc = "aggregate" /\ ~window_open(call.at, call.start, mode))
       /\ TeardownFlushed
            => (/\ file' = dumped(file, readings)
                /\ \A i \in 1..Len(readings) : Individual(readings[i]))]_vars

\* C13, amended: as C13, but the records the teardown adds are readings as
\* take_reading took them unless, in a mode with aggregation = mean, the session
\* was interrupted after aggregate_readings returned and before the flush of the
\* window-complete branch completed: the teardown then writes the one aggregate
\* of the window's readings.
C13_TeardownWritesBuffer ==
    [][/\ AggregateCalled
            => (pc = "aggregate" /\ ~window_open(call.at, call.start, mode))
       /\ TeardownFlushed
            => (/\ file' = dumped(file, readings)
                /\ IF mode.aggregation = "mean" /\ fault.at = "save"
                   THEN readings = aggregated(BufferAtCall, mode)
                   ELSE \A i \in 1..Len(readings) : Individual(readings[i]))]_vars

C13_Witness ==
    /\ pc = "done"
    /\ mode.aggregation = "mean"
    /\ fault.at = "loop"
    /\ td = <<"sleep", "flush">>
    /\ ~write_failed
    /\ Len(atFault) = 2
    /\ flushes = <<atFault>>
    /\ Individual(atFault[1])
    /\ Individual(atFault[2])

\* the pm25 (or pm10) values of the first k readings of buf, added up
RECURSIVE PmTotal(_, _, _)
PmTotal(buf, k, pollutant) ==
    IF k = 0 THEN 0
    ELSE PmTotal(buf, k - 1, pollutant)
         + (IF pollutant = "pm25" THEN buf[k].pm25 ELSE buf[k].pm10)

\* C14: with aggregation = mean, the synthetic raw measurement that
\* aggregate_readings hands to the Calculator, and so the Reading it leaves, has
\* pm25 the sum of the buffered pm25 values and pm10 the sum of the buffered pm10
\* values, not divided by the number of readings.
C14_MeanSums ==
    [][(AggregateCalled /\ pc' = "save" /\ mode.aggregation = "mean")
        => (/\ raw_average_reading(readings).pm25 = PmTotal(readings, Len(readings), "pm25")
            /\ raw_average_reading(readings).pm10 = PmTotal(readings, Len(readings), "pm10")
            /\ readings'[1].pm25 = PmTotal(readings, Len(readings), "pm25")
            /\ readings'[1].pm10 = PmTotal(readings, Len(readings), "pm10"))]_vars

C14_Witness ==
    /\ pc = "save"
    /\ mode.aggregation = "mean"
    /\ cyc = <<"aggregate">>
    /\ call.n = 2
    /\ Len(readings) = 1
    /\ readings[1].pm25 = 12
    /\ readings[1].pm10 = 19

\* C15: the session starts with the sensor asleep, the first call of the driver
\* is wake, and whenever take_reading is about to call query_data the call of
\* wake or sleep made last was a wake.
C15_QueryOnlyAwake ==
    /\ [](pc \in {"monitor", "enter"} => sensor = "asleep")
    /\ [][(pc \in {"monitor", "enter"} /\ sensor' # sensor)
            => (pc = "enter" /\ sensor' = "awake")]_vars
    /\ [](pc = "take" => sensor = "awake")

C15_Witness ==
    /\ pc = "take"
    /\ sensor = "awake"
    /\ start_time > boot
    /\ Len(flushes) >= 1
    /\ call.sensor = "awake"

\* C16: in a mode whose aggregation is "mean", aggregate_readings never runs on
\* an empty buffer, for every schedule of the clock: a window has taken a
\* reading before it completes.
C16_MeanNeverEmpty ==
    (pc = "aggregate" /\ mode.aggregation = "mean") => Len(readings) >= 1

\* C17: in a mode without aggregation, the file valid at every flush and no
\* write faulting, the records added to the file since the session began,
\* followed by the buffer, are the readings taken so far in capture order:
\* window flushes and the teardown flush lose, repeat and reorder nothing.
C17_NothingLost ==
    (mode.aggregation = None /\ parses(file0) /\ ~write_failed)
        => (/\ parses(file)
            /\ existing_data(file) \o readings = existing_data(file0) \o taken
            /\ file.items \o dicts(readings) = file0.items \o dicts(taken))

C17_Witness ==
    /\ mode.aggregation = None
    /\ mode.monitoring_duration # 0
    /\ file0 = RecordList(<<PriorRecord>>)
    /\ ~write_failed
    /\ pc = "done"
    /\ "flush" \in {td[i] : i \in 1..Len(td)}
    /\ Len(flushes) = 2
    /\ Len(taken) = 3
    /\ Len(file.items) = 4
    /\ readings = <<>>

\* C19: in continuous mode (sleep_time = 0) the file is left unchanged and the
\* sensor is never put to sleep from the start of the loop until the teardown:
\* the buffer only grows, by one reading in every iteration the night gate does
\* not suppress, and the file changes only by the flush of the teardown.
C19_ContinuousFrame ==
    /\ []((mode.sleep_time = 0 /\ InSession)
            => (/\ file = file0
                /\ sensor = "awake"
                /\ flushes = <<>>
                /\ readings = taken
                /\ cyc = <<>>
                /\ call = NoCall))
    /\ [][(mode.sleep_time = 0 /\ pc = "loop" /\ now' = now /\ pc' \in {"loop", "take"})
            => (pc' = "loop" <=> (~mode.night_monitoring /\ gate'.result))]_vars
    /\ [][(mode.sleep_time = 0 /\ InSession /\ readings' # readings)
            => (/\ pc = "take"
                /\ pc' = "loop"
                /\ Len(readings') = Len(readings) + 1
                /\ SubSeq(readings', 1, Len(readings)) = readings)]_vars
    /\ [][(mode.sleep_time = 0 /\ pc = "take" /\ pc' = "loop")
            => Len(readings') = Len(readings) + 1]_vars
    /\ [][(mode.sleep_time = 0 /\ (file' # file \/ flushes' # flushes))
            => (pc = "exit_save" /\ td' = Append(td, "flush"))]_vars
    /\ [][(mode.sleep_time = 0 /\ sensor = "awake" /\ sensor' = "asleep")
            => (pc = "exit_sleep" /\ td' = Append(td, "sleep"))]_vars

C19_Witness ==
    /\ mode.sleep_time = 0
    /\ pc = "loop"
    /\ Len(readings) = 3
    /\ readings = taken
    /\ now - boot >= 3 * mode.measurement_period
    /\ file = file0
    /\ sensor = "awake"

\* C20: the buffer is emptied only by a flush that completed its write: a call
\* of save_readings_to_file that faults before or during the overwrite of the
\* file leaves the buffer holding the readings it held when the call began.
C20_ClearedOnlyAfterWrite ==
    [][/\ (readings # <<>> /\ readings' = <<>>)
            => (/\ SaveCalled
                /\ file' = dumped(file, readings)
                /\ flushes' = Append(flushes, readings)
                /\ write_failed' = write_failed)
       /\ (SaveCalled /\ (flushes' = flushes \/ (write_failed' /\ ~write_failed)))
            => (/\ readings' = readings
                /\ atFault' = readings
                /\ fault'.kind \in {"write", "parse"})]_vars

C20_Witness ==
    /\ pc = "exit_sleep"
    /\ fault = [kind |-> "write", at |-> "save"]
    /\ write_failed
    /\ cyc = <<"aggregate", "flush">>
    /\ call.n = 2
    /\ Len(readings) = 2
    /\ readings = atFault
    /\ readings = taken
    /\ flushes = <<>>

\* C18: in a windowed mode with monitoring_duration set and night_monitoring
\* true, the clock advancing and no fault occurring, the window-complete branch
\* is taken infinitely often: every reading appended to the buffer is
\* eventually followed by a flush, and every sensor sleep of a cycle is
\* eventually followed by a sensor wake.
C18_WindowsRecur ==
    [](fault = NoFault)
        => (/\ []<>(pc = "aggregate")
            /\ []<>(pc = "restart")
            /\ (readings # <<>> /\ pc = "loop")
                 ~> (pc = "sensor_sleep" /\ readings = <<>> /\ Len(flushes) = 1)
            /\ (pc = "block" /\ sensor = "asleep")
                 ~> (pc = "restart" /\ sensor = "awake"))

C18_Witness ==
    /\ uses_cycle(mode) /\ mode.night_monitoring
    /\ fault = NoFault
    /\ pc = "restart"
    /\ sensor = "awake"
    /\ readings = <<>>
    /\ call.n = 2
    /\ Len(flushes) = 1
    /\ cyc = <<"aggregate", "flush", "sleep", "block", "wake">>
    /\ iter # TimeOfDay(boot)

====
